---- MODULE Spec2Model ----
(***************************************************************************)
(* Model of src/monitor.py: the DICIA announcement monitor.               *)
(*                                                                         *)
(* Text is a sequence of characters; a character is a one-element string.  *)
(* Hangul syllables are written in romanised form, one string a syllable   *)
(* ("wep","tun" is the two-syllable word for webtoon), Latin letters and   *)
(* punctuation as themselves.                                              *)
(***************************************************************************)
EXTENDS Integers, Sequences, FiniteSets, TLC

VARIABLES
    file,               \* seen_announcements.json on disk
    webhook,            \* SLACK_WEBHOOK_URL is non-empty
    pc,                 \* position of main() in the current run
    run,                \* "first" or "second" invocation by the scheduler
    fetchOk,            \* the GET of the current run succeeded
    announcements,      \* main: announcements
    seen_ids,           \* main: seen_ids
    new_announcements,  \* main: new_announcements
    posts,              \* webhook POSTs attempted in the current run
    postResult,         \* outcome of the POST: "none", "ok", "non200", "error"
    payload,            \* the JSON body of the POST, <<>> when none was made
    console,            \* lines printed by send_slack_notification's fallback
    trace,              \* phases the current run went through
    fileAtStart,        \* the file as it was when the current run started
    prevAnn,            \* announcements of the previous run
    prevFetchOk,        \* the GET of the previous run succeeded
    cTitle, cTeam, cResult, cPc,   \* a call of is_priority and its result
    sIn, sOut, sPc                 \* a call of save_seen then load_seen

vars == <<file, webhook, pc, run, fetchOk, announcements, seen_ids,
          new_announcements, posts, postResult, payload, console, trace,
          fileAtStart, prevAnn, prevFetchOk, cTitle, cTeam, cResult, cPc, sIn, sOut, sPc>>

mainVars == <<file, webhook, pc, run, fetchOk, announcements, seen_ids,
              new_announcements, posts, postResult, payload, console, trace,
              fileAtStart, prevAnn, prevFetchOk>>
classifyVars == <<cTitle, cTeam, cResult, cPc>>
storeVars == <<sIn, sOut, sPc>>

----------------------------------------------------------------------------
(* Bounds of the model *)

MaxPage == 2        \* candidate anchors on the listing page
MaxFrag == 2        \* fragments a classifier input title is built from
MaxOver == 2        \* how far a list handed to save_seen exceeds the cap

----------------------------------------------------------------------------
(* Python str operations, on sequences of characters *)

Range(s) == {s[i] : i \in 1..Len(s)}

Min(a, b) == IF a < b THEN a ELSE b

Max(a, b) == IF a > b THEN a ELSE b

\* kw in text
Contains(text, kw) ==
    \E i \in 0..(Len(text) - Len(kw)) :
        \A j \in 1..Len(kw) : text[i + j] = kw[j]

\* text.replace(kw, ""): leftmost non-overlapping occurrences removed
RECURSIVE Remove(_, _)
Remove(text, kw) ==
    IF Len(text) < Len(kw) \/ Len(kw) = 0 THEN text
    ELSE IF SubSeq(text, 1, Len(kw)) = kw
         THEN Remove(SubSeq(text, Len(kw) + 1, Len(text)), kw)
         ELSE <<Head(text)>> \o Remove(Tail(text), kw)

\* text.strip()
RECURSIVE Strip(_)
Strip(text) ==
    IF text = <<>> THEN text
    ELSE IF Head(text) = " " THEN Strip(Tail(text))
    ELSE IF text[Len(text)] = " " THEN Strip(SubSeq(text, 1, Len(text) - 1))
    ELSE text

----------------------------------------------------------------------------
(* Configuration data *)

PRIORITY_KEYWORDS == <<
    <<"wep", "tun">>,                        \* webtoon
    <<"I", "P">>,                            \* IP
    <<"kon", "ten", "cheu">>,                \* content
    <<"kae", "rik", "teo">>,                 \* character
    <<"ra", "i", "seon", "sing">>,           \* licensing
    <<"pap", "eop">>,                        \* pop-up
    <<"kon", "ten", "cheu", "gi", "eop">>,   \* content company
    <<"si", "jang", "chang", "chul">>,       \* market creation
    <<"ip", "ju">>,                          \* tenancy
    <<"gut", "jeu">>,                        \* goods
    <<"beu", "rit", "ji", "pe", "eo">>,      \* bridge fair
    <<"gwan", "gwang">>,                     \* tourism
    <<"mun", "hwa", "kon", "ten", "cheu">>,  \* cultural content
    <<"yung", "bok", "hap">>,                \* convergence
    <<"teuk", "su", "yeong", "sang">> >>     \* special video

EXCLUDE_KEYWORDS == <<
    <<"bi", "sang", "im">>,                  \* non-standing
    <<"chae", "yong">>,                      \* recruitment
    <<"pyeong", "ga", "wi", "won">> >>       \* evaluation committee member

----------------------------------------------------------------------------
(* is_priority *)

\* any(pk in combined for pk in PRIORITY_KEYWORDS)
AnyPriority(combined) ==
    \E k \in 1..Len(PRIORITY_KEYWORDS) : Contains(combined, PRIORITY_KEYWORDS[k])

\* the first loop, from the k-th exclusion keyword on: TRUE when it returns False
RECURSIVE ExcludeLoop(_, _)
ExcludeLoop(combined, k) ==
    IF k > Len(EXCLUDE_KEYWORDS) THEN FALSE
    ELSE IF Contains(combined, EXCLUDE_KEYWORDS[k]) /\ ~AnyPriority(combined)
         THEN TRUE
         ELSE ExcludeLoop(combined, k + 1)

\* the second loop, from the k-th priority keyword on: TRUE when it returns True
RECURSIVE PriorityLoop(_, _)
PriorityLoop(combined, k) ==
    IF k > Len(PRIORITY_KEYWORDS) THEN FALSE
    ELSE IF Contains(combined, PRIORITY_KEYWORDS[k]) THEN TRUE
    ELSE PriorityLoop(combined, k + 1)

\* a plausible slip: an exclusion keyword suppresses whatever else is present
is_priority_ExcludeWins(title, team) ==
    LET combined == title \o <<" ">> \o team
    IN  IF \E k \in 1..Len(EXCLUDE_KEYWORDS) : Contains(combined, EXCLUDE_KEYWORDS[k])
        THEN FALSE
        ELSE PriorityLoop(combined, 1)

is_priority(title, team) ==
    LET combined == title \o <<" ">> \o team
    IN  IF ExcludeLoop(combined, 1) THEN FALSE
        ELSE PriorityLoop(combined, 1)

----------------------------------------------------------------------------
(* fetch_announcements *)

UNIT_KEYWORDS == {<<"sa", "eop", "dan">>, <<"gi", "hoek", "dan">>,
                  <<"chu", "jin", "dan">>, <<"ji", "won", "dan">>}

DATE_LABEL == <<"gong", "go", "il", "ja">>
PERIOD_LABEL == <<"jeop", "su", "gi", "gan">>
TARGET_LABEL == <<"ji", "won", "dae", "sang">>

STATUS_TOKENS == {<<"jeop", "su", "jung">>, <<"jeop", "su", "ma", "gam">>,
                  <<"jeop", "su", "jeon">>}

IsTeamLine(line) ==
    Contains(line, <<">">>) /\ \E u \in UNIT_KEYWORDS : Contains(line, u)

IsStatusLine(line) == line \in STATUS_TOKENS

\* for line in lines: if <test>: x = line; break   (x = "" before the loop);
\* hits: the positions of the lines that pass the test
FirstLine(lines, hits) ==
    IF hits = {} THEN <<>>
    ELSE lines[CHOOSE i \in hits : \A j \in hits : i <= j]

TeamLines(lines) == {i \in 1..Len(lines) : IsTeamLine(lines[i])}

StatusLines(lines) == {i \in 1..Len(lines) : IsStatusLine(lines[i])}

\* the info dict after the first k lines; a key that is absent reads as ""
RECURSIVE InfoLoop(_, _)
InfoLoop(lines, k) ==
    IF k = 0 THEN [date |-> <<>>, period |-> <<>>, target |-> <<>>]
    ELSE LET info == InfoLoop(lines, k - 1)
             line == lines[k]
         IN  IF Contains(line, DATE_LABEL)
             THEN [info EXCEPT !.date = Strip(Remove(line, DATE_LABEL))]
             ELSE IF Contains(line, PERIOD_LABEL)
             THEN [info EXCEPT !.period = Strip(Remove(line, PERIOD_LABEL))]
             ELSE IF Contains(line, TARGET_LABEL)
             THEN [info EXCEPT !.target = Strip(Remove(line, TARGET_LABEL))]
             ELSE info

\* f"{title}|{date}"
UniqueId(title, date) == title \o <<"|">> \o date

\* the record appended for one anchor that passes both filters
Record(item) ==
    LET title == item.strong[1]
        info  == InfoLoop(item.lines, Len(item.lines))
    IN  [id     |-> UniqueId(title, info.date),
         title  |-> title,
         team   |-> FirstLine(item.lines, TeamLines(item.lines)),
         date   |-> info.date,
         period |-> info.period,
         target |-> info.target,
         status |-> FirstLine(item.lines, StatusLines(item.lines))]

\* the loop over soup.select("ul > li > a")
RECURSIVE ExtractLoop(_)
ExtractLoop(items) ==
    IF items = <<>> THEN <<>>
    ELSE LET item == Head(items)
         IN  IF Len(item.lines) < 3 \/ item.strong = <<>>
             THEN ExtractLoop(Tail(items))
             ELSE <<Record(item)>> \o ExtractLoop(Tail(items))

\* a plausible slip: the records of a cached page are returned when the GET fails
fetch_announcements_Stale(ok, items) == ExtractLoop(items)

\* ok: requests.get and raise_for_status raised nothing; items: the anchors of
\* the page that was served
fetch_announcements(ok, items) ==
    IF ~ok THEN <<>> ELSE ExtractLoop(items)

----------------------------------------------------------------------------
(* load_seen, save_seen *)

SEEN_CAP == 200

Missing == [kind |-> "missing", items |-> <<>>]
Corrupt == [kind |-> "corrupt", items |-> <<>>]

\* seen_ids[-200:]
LastCap(seen) == SubSeq(seen, Max(1, Len(seen) - SEEN_CAP + 1), Len(seen))

\* a plausible slip: the slice is forgotten
save_seen_NoCap(seen) == [kind |-> "json", items |-> seen]

\* a plausible slip: the slice is taken from the wrong end, seen_ids[200:]
save_seen_WrongEnd(seen) ==
    [kind |-> "json", items |-> SubSeq(seen, SEEN_CAP + 1, Len(seen))]

\* the file after json.dump(seen_ids[-200:], f)
save_seen(seen) == [kind |-> "json", items |-> LastCap(seen)]

\* load_seen returns normally: the file is absent, or holds a JSON array
LoadReturns(f) == f.kind # "corrupt"

\* the value load_seen returns when it returns
load_seen(f) == IF f.kind = "json" THEN f.items ELSE <<>>

----------------------------------------------------------------------------
(* main: the diff loop and the union *)

\* ann with ann["is_priority"] set
Classified(ann) ==
    [id |-> ann.id, title |-> ann.title, team |-> ann.team, date |-> ann.date,
     period |-> ann.period, target |-> ann.target, status |-> ann.status,
     is_priority |-> is_priority(ann.title, ann.team)]

\* a plausible slip: an identity reported once is not reported again in the run
RECURSIVE DiffLoopOnce(_, _)
DiffLoopOnce(anns, seen) ==
    IF anns = <<>> THEN <<>>
    ELSE IF Head(anns).id \in Range(seen) THEN DiffLoopOnce(Tail(anns), seen)
    ELSE <<Classified(Head(anns))>>
             \o DiffLoopOnce(Tail(anns), seen \o <<Head(anns).id>>)

DiffLoop_Dedup(anns, seen) == DiffLoopOnce(anns, seen)

\* for ann in announcements: if ann["id"] not in seen_ids: ... append
RECURSIVE DiffLoop(_, _)
DiffLoop(anns, seen) ==
    IF anns = <<>> THEN <<>>
    ELSE IF Head(anns).id \in Range(seen) THEN DiffLoop(Tail(anns), seen)
    ELSE <<Classified(Head(anns))>> \o DiffLoop(Tail(anns), seen)

\* [ann["id"] for ann in announcements]
CurrentIds(anns) == [i \in 1..Len(anns) |-> anns[i].id]

\* the elements of a list, each once, in order of first occurrence: those of
\* the first half, then those of the second half that the first half lacks
RECURSIVE Dedup(_)
Dedup(s) ==
    IF Len(s) <= 1 THEN s
    ELSE LET half  == Len(s) \div 2
             left  == Dedup(SubSeq(s, 1, half))
             right == Dedup(SubSeq(s, half + 1, Len(s)))
             inLeft == Range(left)
         IN  left \o SelectSeq(right, LAMBDA x : x \notin inLeft)

Reverse(s) == [i \in 1..Len(s) |-> s[Len(s) + 1 - i]]

\* list(set(xs)): the elements of xs, each once, in the iteration order of a
\* set of str, which the string-hash seed of the process decides.  Two orders
\* are drawn: the order of arrival and its reverse.
ListOfSet(xs) == {Dedup(xs), Reverse(Dedup(xs))}

----------------------------------------------------------------------------
(* send_slack_notification *)

\* one printed line of the fallback: f"  {priority}[{ann['status']}] {ann['title']}"
ReportLine(ann) ==
    [kind |-> "record", star |-> ann.is_priority, status |-> ann.status,
     title |-> ann.title]

NoHookLine == [kind |-> "nohook", star |-> FALSE, status |-> <<>>, title |-> <<>>]

\* a plausible slip: only the priority records are printed
FallbackPrints_PriorityOnly(new) ==
    <<NoHookLine>> \o
        SelectSeq([i \in 1..Len(new) |-> ReportLine(new[i])], LAMBDA l : l.star)

\* what the branch for an empty SLACK_WEBHOOK_URL prints
FallbackPrints(new) ==
    <<NoHookLine>> \o [i \in 1..Len(new) |-> ReportLine(new[i])]

IsPriorityAnn(a) == a.is_priority
IsNormalAnn(a) == ~a.is_priority

\* the payload: the counts of the summary text and the records of the two
\* sections, in order
Payload(new) ==
    [total         |-> Len(new),
     priority_anns |-> SelectSeq(new, IsPriorityAnn),
     normal_anns   |-> SelectSeq(new, IsNormalAnn)]

----------------------------------------------------------------------------
(* The environment of main: the listing page, the state file, the webhook *)

WEBTOON == <<"wep", "tun">>
RECRUIT == <<"chae", "yong">>

\* the anchors a served page is made of
Anchors == {
    \* a webtoon call, dated 1, open
    [strong |-> <<WEBTOON>>,
     lines  |-> <<WEBTOON, DATE_LABEL \o <<" ", "1">>, <<"jeop", "su", "jung">> >>],
    \* the same call after it closed: only the status line differs
    [strong |-> <<WEBTOON>>,
     lines  |-> <<WEBTOON, DATE_LABEL \o <<" ", "1">>, <<"jeop", "su", "ma", "gam">> >>],
    \* a recruitment notice of a planning unit, undated, no status token
    [strong |-> <<RECRUIT>>,
     lines  |-> <<RECRUIT, <<"A", ">", "gi", "hoek", "dan">>,
                  TARGET_LABEL \o <<" ", "B">> >>],
    \* a navigation link: one line, no <strong>
    [strong |-> <<>>, lines |-> <<<<"home">>>>]
}

Pages == UNION {[1..n -> Anchors] : n \in 0..MaxPage}

\* the identity of the n-th older announcement: titled n, undated
OldId(n) == UniqueId(<<ToString(n)>>, <<>>)

\* the file save_seen leaves after a run that knew n older announcements
OldFile(n) == [kind |-> "json", items |-> [i \in 1..n |-> OldId(i)]]

\* the state file before the first run: never written, cut short by a crash
\* in mid-write, or written by an earlier run
InitialFiles == {Missing, Corrupt, OldFile(1), OldFile(SEEN_CAP - 1), OldFile(SEEN_CAP)}

Idle == "idle"

MainIdle ==
    /\ file = Missing /\ webhook = FALSE /\ pc = Idle /\ run = Idle
    /\ fetchOk = FALSE /\ announcements = <<>> /\ seen_ids = <<>>
    /\ new_announcements = <<>> /\ posts = 0 /\ postResult = "none"
    /\ payload = <<>> /\ console = <<>> /\ trace = <<>>
    /\ fileAtStart = Missing /\ prevAnn = <<>> /\ prevFetchOk = FALSE

ClassifyIdle == cTitle = <<>> /\ cTeam = <<>> /\ cResult = FALSE /\ cPc = Idle

StoreIdle == sIn = <<>> /\ sOut = <<>> /\ sPc = Idle

----------------------------------------------------------------------------
(* main, one action a step *)

Init ==
    /\ file \in InitialFiles
    /\ webhook \in BOOLEAN
    /\ pc = "start" /\ run = "first"
    /\ fetchOk = FALSE /\ announcements = <<>> /\ seen_ids = <<>>
    /\ new_announcements = <<>> /\ posts = 0 /\ postResult = "none"
    /\ payload = <<>> /\ console = <<>> /\ trace = <<>>
    /\ fileAtStart = file /\ prevAnn = <<>> /\ prevFetchOk = FALSE
    /\ ClassifyIdle /\ StoreIdle

\* fetch_announcements() and the test "if not announcements: return"
Fetch ==
    /\ pc = "start"
    /\ \E ok \in BOOLEAN, items \in Pages :
          LET anns == fetch_announcements(ok, items)
          IN  /\ fetchOk' = ok
              /\ announcements' = anns
              /\ pc' = IF anns = <<>> THEN "aborted" ELSE "fetched"
              /\ trace' = IF ~ok THEN <<"Fetching", "Aborted">>
                          ELSE IF anns = <<>>
                          THEN <<"Fetching", "Extracting", "Aborted">>
                          ELSE <<"Fetching", "Extracting">>
    /\ UNCHANGED <<file, webhook, run, seen_ids, new_announcements, posts,
                   postResult, payload, console, fileAtStart, prevAnn,
                   prevFetchOk>>

\* seen_ids = load_seen()
Load ==
    /\ pc = "fetched"
    /\ LoadReturns(file)
    /\ seen_ids' = load_seen(file)
    /\ pc' = "loaded"
    /\ UNCHANGED <<file, webhook, run, fetchOk, announcements,
                   new_announcements, posts, postResult, payload, console,
                   trace, fileAtStart, prevAnn, prevFetchOk>>

\* json.load raises JSONDecodeError, which nothing catches: main ends there
LoadRaises ==
    /\ pc = "fetched"
    /\ ~LoadReturns(file)
    /\ pc' = "crashed"
    /\ UNCHANGED <<file, webhook, run, fetchOk, announcements, seen_ids,
                   new_announcements, posts, postResult, payload, console,
                   trace, fileAtStart, prevAnn, prevFetchOk>>

\* the loop that fills new_announcements
Diff ==
    /\ pc = "loaded"
    /\ new_announcements' = DiffLoop(announcements, seen_ids)
    /\ pc' = "diffed"
    /\ trace' = trace \o <<"Diffing", "Classifying">>
    /\ UNCHANGED <<file, webhook, run, fetchOk, announcements, seen_ids,
                   posts, postResult, payload, console, fileAtStart, prevAnn,
                   prevFetchOk>>

\* else: print("no new announcements")
NotifyNothing ==
    /\ pc = "diffed"
    /\ new_announcements = <<>>
    /\ pc' = "notified"
    /\ trace' = trace \o <<"Notifying">>
    /\ UNCHANGED <<file, webhook, run, fetchOk, announcements, seen_ids,
                   new_announcements, posts, postResult, payload, console,
                   fileAtStart, prevAnn, prevFetchOk>>

\* send_slack_notification with SLACK_WEBHOOK_URL empty
NotifyFallback ==
    /\ pc = "diffed"
    /\ new_announcements # <<>>
    /\ ~webhook
    /\ console' = FallbackPrints(new_announcements)
    /\ pc' = "notified"
    /\ trace' = trace \o <<"Notifying">>
    /\ UNCHANGED <<file, webhook, run, fetchOk, announcements, seen_ids,
                   new_announcements, posts, postResult, payload, fileAtStart,
                   prevAnn, prevFetchOk>>

\* send_slack_notification with a webhook: one POST, whose outcome is the
\* sink's: status 200, another status, or a RequestException
NotifyPost ==
    /\ pc = "diffed"
    /\ new_announcements # <<>>
    /\ webhook
    /\ payload' = Payload(new_announcements)
    /\ posts' = posts + 1
    /\ postResult' \in {"ok", "non200", "error"}
    /\ pc' = "notified"
    /\ trace' = trace \o <<"Notifying">>
    /\ UNCHANGED <<file, webhook, run, fetchOk, announcements, seen_ids,
                   new_announcements, console, fileAtStart, prevAnn,
                   prevFetchOk>>

\* all_seen = list(set(seen_ids + current_ids)); save_seen(all_seen)
Save ==
    /\ pc = "notified"
    /\ \E all_seen \in ListOfSet(seen_ids \o CurrentIds(announcements)) :
          file' = save_seen(all_seen)
    /\ pc' = "done"
    /\ trace' = trace \o <<"Persisting", "Done">>
    /\ UNCHANGED <<webhook, run, fetchOk, announcements, seen_ids,
                   new_announcements, posts, postResult, payload, console,
                   fileAtStart, prevAnn, prevFetchOk>>

\* the scheduler starts the next run once this one has ended
NextRun ==
    /\ pc \in {"done", "aborted", "crashed"}
    /\ run = "first"
    /\ run' = "second"
    /\ pc' = "start"
    /\ prevAnn' = announcements
    /\ prevFetchOk' = fetchOk
    /\ fileAtStart' = file
    /\ fetchOk' = FALSE /\ announcements' = <<>> /\ seen_ids' = <<>>
    /\ new_announcements' = <<>> /\ posts' = 0 /\ postResult' = "none"
    /\ payload' = <<>> /\ console' = <<>> /\ trace' = <<>>
    /\ UNCHANGED <<file, webhook>>

Next ==
    \/ (Fetch /\ UNCHANGED <<classifyVars, storeVars>>)
    \/ (Load /\ UNCHANGED <<classifyVars, storeVars>>)
    \/ (LoadRaises /\ UNCHANGED <<classifyVars, storeVars>>)
    \/ (Diff /\ UNCHANGED <<classifyVars, storeVars>>)
    \/ (NotifyNothing /\ UNCHANGED <<classifyVars, storeVars>>)
    \/ (NotifyFallback /\ UNCHANGED <<classifyVars, storeVars>>)
    \/ (NotifyPost /\ UNCHANGED <<classifyVars, storeVars>>)
    \/ (Save /\ UNCHANGED <<classifyVars, storeVars>>)
    \/ (NextRun /\ UNCHANGED <<classifyVars, storeVars>>)

Spec == Init /\ [][Next]_vars

----------------------------------------------------------------------------
(* is_priority on its own: one call on a drawn title and organisation path *)

\* what the drawn titles are built from: the keywords, pieces of keywords,
\* and text that belongs to no keyword
Fragments ==
    Range(PRIORITY_KEYWORDS) \cup Range(EXCLUDE_KEYWORDS) \cup
    {<<"kon", "ten">>, <<"cheu">>, <<"chae">>, <<"yong">>, <<"I">>, <<"P">>,
     <<"an", "nae">>, <<" ">>}

RECURSIVE Join(_)
Join(frags) == IF frags = <<>> THEN <<>> ELSE Head(frags) \o Join(Tail(frags))

\* the four cases the documentation works through
DocumentedTitles == {
    <<"wep", "tun", " ", "I", "P", " ", "gong", "mo", "jeon", " ", "an", "nae">>,
    <<"bi", "sang", "im", " ", "i", "sa", " ", "chae", "yong", " ", "gong", "go">>,
    <<"wep", "tun", " ", "jak", "ga", " ", "chae", "yong", " ", "gong", "go">>,
    <<"jeong", "gi", " ", "hoe", "ui", "rok">> }

ClassifierTitles ==
    DocumentedTitles \cup
    {Join(f) : f \in UNION {[1..n -> Fragments] : n \in 0..MaxFrag}}

ClassifierTeams == {
    <<>>,
    <<"gi", "hoek", "dan">>,
    <<"A", ">", "kon", "ten", "cheu", "sa", "eop", "dan">>,
    <<"in", "sa", ">", "chae", "yong", "ji", "won", "dan">> }

InitClassify ==
    /\ cTitle \in ClassifierTitles
    /\ cTeam \in ClassifierTeams
    /\ cResult = FALSE
    /\ cPc = "call"
    /\ MainIdle /\ StoreIdle

Classify ==
    /\ cPc = "call"
    /\ cResult' = is_priority(cTitle, cTeam)
    /\ cPc' = "returned"
    /\ UNCHANGED <<cTitle, cTeam>>

NextClassify == Classify /\ UNCHANGED <<mainVars, storeVars>>

SpecClassify == InitClassify /\ [][NextClassify]_vars

----------------------------------------------------------------------------
(* save_seen then load_seen on their own, on a drawn list *)

OldList(n) == [i \in 1..n |-> OldId(i)]

StoreLengths == (0..MaxOver) \cup ((SEEN_CAP - 1)..(SEEN_CAP + MaxOver))

\* lists without and with a repeated entry, shorter and longer than the cap
StoreInputs ==
    {OldList(n) : n \in StoreLengths} \cup
    {Reverse(OldList(n)) : n \in StoreLengths} \cup
    {OldList(n) \o <<OldId(1)>> : n \in StoreLengths}

InitStore ==
    /\ sIn \in StoreInputs
    /\ sOut = <<>>
    /\ sPc = "call"
    /\ file \in {Missing, Corrupt, OldFile(1)}
    /\ webhook = FALSE /\ pc = Idle /\ run = Idle
    /\ fetchOk = FALSE /\ announcements = <<>> /\ seen_ids = <<>>
    /\ new_announcements = <<>> /\ posts = 0 /\ postResult = "none"
    /\ payload = <<>> /\ console = <<>> /\ trace = <<>>
    /\ fileAtStart = file /\ prevAnn = <<>> /\ prevFetchOk = FALSE
    /\ ClassifyIdle

StoreSave ==
    /\ sPc = "call"
    /\ file' = save_seen(sIn)
    /\ sPc' = "saved"
    /\ UNCHANGED <<sIn, sOut>>

StoreLoad ==
    /\ sPc = "saved"
    /\ LoadReturns(file)
    /\ sOut' = load_seen(file)
    /\ sPc' = "loaded"
    /\ UNCHANGED <<sIn, file>>

NextStore ==
    \/ (StoreSave /\ UNCHANGED <<webhook, pc, run, fetchOk, announcements,
                                 seen_ids, new_announcements, posts, postResult,
                                 payload, console, trace, fileAtStart, prevAnn,
                                 prevFetchOk, classifyVars>>)
    \/ (StoreLoad /\ UNCHANGED <<webhook, pc, run, fetchOk, announcements,
                                 seen_ids, new_announcements, posts, postResult,
                                 payload, console, trace, fileAtStart, prevAnn,
                                 prevFetchOk, classifyVars>>)

SpecStore == InitStore /\ [][NextStore]_vars

----------------------------------------------------------------------------
(* Properties *)

Ended == pc \in {"done", "aborted", "crashed"}

AfterDiff == pc \in {"diffed", "notified", "done"}

IdsOf(anns) == {anns[i].id : i \in 1..Len(anns)}

\* the classification rule as the design states it, on the combined text
HasExclusion(text) == \E kw \in Range(EXCLUDE_KEYWORDS) : Contains(text, kw)
HasPriority(text) == \E kw \in Range(PRIORITY_KEYWORDS) : Contains(text, kw)
StatedRule(title, team) ==
    LET text == title \o <<" ">> \o team
    IN  IF HasExclusion(text) /\ ~HasPriority(text) THEN FALSE
        ELSE IF HasPriority(text) THEN TRUE
        ELSE FALSE

\* C1: when two successive runs both fetch successfully and get the same
\* records, the second run finds no new announcement and notifies nothing.
C1_DedupIdempotence ==
    (run = "second" /\ prevFetchOk /\ fetchOk /\ announcements = prevAnn
        /\ AfterDiff)
    => (new_announcements = <<>> /\ posts = 0 /\ console = <<>>)

\* C2: once the page fetch has failed, the run is over: nothing was loaded,
\* notified or saved, and the state file is what it was when the run started.
C2_FetchFailureShortCircuit ==
    (pc # "start" /\ ~fetchOk)
    => /\ pc = "aborted"
       /\ file = fileAtStart
       /\ seen_ids = <<>> /\ new_announcements = <<>>
       /\ posts = 0 /\ payload = <<>> /\ console = <<>>
       /\ trace = <<"Fetching", "Aborted">>

C2_Witness ==
    /\ pc = "aborted" /\ ~fetchOk /\ run = "second"
    /\ file.kind = "json" /\ Len(file.items) = SEEN_CAP

\* C3: a POST that fails (non-200 or transport error) does not abort the run,
\* and the run ends with every identity of the current fetch in the file.
C3_DeliveryFailureNonFatal ==
    (postResult \in {"non200", "error"})
    => /\ pc \in {"notified", "done"}
       /\ pc = "done" => (file.kind = "json"
                          /\ IdsOf(announcements) \subseteq Range(file.items))

\* C4: after any run the state file holds at most 200 identities.
C4_CapEnforcement == Ended => Len(file.items) <= 200

C4_Witness ==
    /\ pc = "done"
    /\ Cardinality(Range(seen_ids) \cup IdsOf(announcements)) > 200
    /\ Len(file.items) = 200

\* C5: a run that finds the state file corrupt or missing does not fail,
\* reports every record of the fetch as new and ends with the file holding
\* exactly the current identities.
C5_LoadErrorTolerated ==
    (fileAtStart.kind \in {"corrupt", "missing"})
    => /\ pc # "crashed"
       /\ AfterDiff => Len(new_announcements) = Len(announcements)
       /\ pc = "done" => (file.kind = "json"
                          /\ Range(file.items) = IdsOf(announcements))

\* C6: is_priority returns what the stated rule gives: false on an exclusion
\* keyword with no priority keyword, else true on a priority keyword, else
\* false; both kinds of keyword together give true.
C6_ClassifierRule ==
    (cPc = "returned") => (cResult = StatedRule(cTitle, cTeam))

C6_Witness ==
    /\ cPc = "returned"
    /\ HasExclusion(cTitle \o <<" ">> \o cTeam)
    /\ HasPriority(cTitle \o <<" ">> \o cTeam)
    /\ cResult = TRUE

\* C7 as stated: save_seen then load_seen returns exactly the set of saved
\* identities, whatever the list.
C7_RoundTripAnyList == (sPc = "loaded") => (Range(sOut) = Range(sIn))

\* C7 as amended: load_seen returns the last 200 entries of the saved list, so
\* the set of identities is returned whole for every list of at most 200.
C7_RoundTripWithinCap ==
    (sPc = "loaded")
    => /\ Len(sOut) = Min(Len(sIn), 200)
       /\ \A i \in 1..Len(sOut) : sOut[i] = sIn[Len(sIn) - Len(sOut) + i]
       /\ Len(sIn) <= 200 => Range(sOut) = Range(sIn)

C7_Witness ==
    /\ sPc = "loaded" /\ Len(sIn) = 200 /\ Range(sOut) = Range(sIn)
    /\ fileAtStart # file

\* C8: with no webhook URL nothing is posted, the fallback prints one line for
\* each new record, in order, starred exactly on the priority records, and the
\* run goes on to write the state file.
C8_FallbackMode ==
    (~webhook)
    => /\ posts = 0 /\ payload = <<>> /\ postResult = "none"
       /\ pc \in {"notified", "done"} =>
            LET printed == SelectSeq(console, LAMBDA l : l.kind = "record")
            IN  /\ Len(printed) = Len(new_announcements)
                /\ \A i \in 1..Len(printed) :
                      /\ printed[i].title = new_announcements[i].title
                      /\ printed[i].status = new_announcements[i].status
                      /\ printed[i].star = StatedRule(new_announcements[i].title,
                                                      new_announcements[i].team)
       /\ console # <<>> => pc \in {"notified", "done"}
       /\ pc = "done" => (file.kind = "json" /\ file = save_seen(file.items)
                          /\ Range(file.items) \subseteq
                                Range(seen_ids) \cup IdsOf(announcements))

C8_Witness ==
    /\ ~webhook /\ pc = "done" /\ Len(console) = 3
    /\ console[2].star /\ ~console[3].star

\* C9: a run ends aborted only when its fetch failed; a run whose fetch
\* succeeded ends done, having passed through every phase in order.
C9_AbortedFromFetchingOnly ==
    /\ pc = "aborted" => ~fetchOk
    /\ (Ended /\ fetchOk) =>
          /\ pc = "done"
          /\ file.kind = "json"
          /\ trace = <<"Fetching", "Extracting", "Diffing", "Classifying",
                       "Notifying", "Persisting", "Done">>

\* C10 as stated: no two of the new announcements of a run have the same
\* identity.
C10_NoRepeatedIdentity ==
    \A i, j \in 1..Len(new_announcements) :
        new_announcements[i].id = new_announcements[j].id => i = j

\* C10 as amended: the new announcements are the fetched records whose
\* identity the loaded store lacks, each as often and in the order the page
\* lists it.
C10_NewAreTheUnseen ==
    AfterDiff =>
        [i \in 1..Len(new_announcements) |-> new_announcements[i].id]
            = SelectSeq(CurrentIds(announcements),
                        LAMBDA id : id \notin Range(seen_ids))

C10_Witness ==
    /\ AfterDiff /\ Len(new_announcements) = 2 /\ Len(seen_ids) > 0
    /\ new_announcements[1].id = new_announcements[2].id
    /\ new_announcements[1].status # new_announcements[2].status

====
